---- MODULE Spec2Model ----
\* Model of phy/cluster/manual/wizard.py: the ranking functions and the
\* navigation state machine of the Wizard class.
EXTENDS Integers, Sequences, FiniteSets, TLC

\* ------------------------------------------------------------------ bounds
\* Longest list of cluster ids handed to the cluster_ids setter.
MaxClusters == 3
\* Largest number of elements put in the ignored set.
MaxIgnored == 1
\* next() is issued while _index is less than this far past the end of
\* the list.
MaxPastEnd == 1
\* Largest n_max passed to best_clusters / most_similar_clusters.
MaxNMax == 2

\* ------------------------------------------------------------------ values
\* Cluster ids (integers; 0 is a valid id).
Items == {0, 1, 2}

\* Python's None, and a present value, for an optional field.
None == <<>>
Some(v) == <<v>>

\* Lists of at most n cluster ids, in any order, duplicates allowed.
SeqsUpTo(n) == UNION {[1..k -> Items] : k \in 0..n}

\* Those of them that hold no cluster id twice.
DistinctSeqsUpTo(n) ==
    {s \in SeqsUpTo(n) : \A i, j \in 1..Len(s) : i # j => s[i] # s[j]}

\* Quality functions a caller may register (cluster -> number).
QualityFuncs ==
    { [c \in Items |-> IF c = 1 THEN 2 ELSE 1],
      [c \in Items |-> c] }

\* Similarity functions a caller may register ((cluster, cluster) -> number).
SimilarityFuncs ==
    { [p \in Items \X Items |-> IF p[1] = p[2] THEN 3
                                ELSE IF p[1] < p[2] THEN 2 ELSE 1],
      [p \in Items \X Items |-> (p[1] + 2 * p[2]) % 3] }

\* The functions registered on the Wizard whose navigation is explored.
NavQuality == [c \in Items |-> IF c = 1 THEN 2 ELSE 1]
NavSimilarity == [p \in Items \X Items |-> (p[1] + 2 * p[2]) % 3]

\* What ignore() may be given: a cluster id <<c>>, a pair <<a, b>>,
\* a 3-tuple, or a value that is neither an integer nor a tuple.
IgnoreItems == {<<c>> : c \in Items}
IgnorePairs == {<<a, b>> : a, b \in Items} \ {<<c, c>> : c \in Items}
IgnoreArgs ==
    {[type |-> "int", val |-> v] : v \in IgnoreItems}
    \cup {[type |-> "tuple", val |-> v] : v \in IgnorePairs}
    \cup {[type |-> "tuple", val |-> <<0, 1, 2>>], [type |-> "str", val |-> <<>>]}

\* The arguments tried during navigation: every cluster id, the pairs
\* <<1, 2>> and <<2, 1>>, and the rejected ones.
NavIgnoreArgs ==
    {a \in IgnoreArgs : a.type = "tuple" /\ Len(a.val) = 2
                           => a.val \in {<<1, 2>>, <<2, 1>>}}

\* Values of n_max: None, or 0..MaxNMax.
NMaxValues == {None} \cup {Some(n) : n \in 0..MaxNMax}

\* The result of a call: a normal return (kind "ok") or a raised exception.
Ok(v) == [kind |-> "ok", val |-> v]
Raise(e) == [kind |-> e, val |-> <<>>]
IsOk(r) == r.kind = "ok"

\* ------------------------------------------------------------------ sorting
\* sorted(cluster_ids): ascending, by insertion.
RECURSIVE InsertAsc(_, _)
InsertAsc(s, x) ==
    IF s = <<>> THEN <<x>>
    ELSE IF x < Head(s) THEN <<x>> \o s
    ELSE <<Head(s)>> \o InsertAsc(Tail(s), x)

RECURSIVE sorted(_)
sorted(s) ==
    IF s = <<>> THEN <<>>
    ELSE InsertAsc(sorted(SubSeq(s, 1, Len(s) - 1)), s[Len(s)])

\* sorted(seq, key=itemgetter(1), reverse=True): a stable sort by
\* descending value; an element goes after those of equal value before it.
\* InsertDesc with an element put before those of equal value (a sort that
\* is not stable).
RECURSIVE InsertDescUnstable(_, _)
InsertDescUnstable(s, e) ==
    IF s = <<>> THEN <<e>>
    ELSE IF e[2] >= Head(s)[2] THEN <<e>> \o s
    ELSE <<Head(s)>> \o InsertDescUnstable(Tail(s), e)

RECURSIVE InsertDesc(_, _)
InsertDesc(s, e) ==
    IF s = <<>> THEN <<e>>
    ELSE IF e[2] > Head(s)[2] THEN <<e>> \o s
    ELSE <<Head(s)>> \o InsertDesc(Tail(s), e)

RECURSIVE sorted_by_value_reverse(_)
sorted_by_value_reverse(seq) ==
    IF seq = <<>> THEN <<>>
    ELSE InsertDesc(sorted_by_value_reverse(SubSeq(seq, 1, Len(seq) - 1)),
                    seq[Len(seq)])

\* out[:n_max] for n_max >= 0.
Take(s, n) == SubSeq(s, 1, IF n < Len(s) THEN n ELSE Len(s))

\* _argsort(seq, n_max): seq is a list of <<cluster, value>>.
_argsort(seq, n_max) ==
    LET srt == sorted_by_value_reverse(seq)
        out == [i \in 1..Len(srt) |-> srt[i][1]]
    IN  IF n_max = None \/ n_max = Some(0) THEN out
        ELSE Take(out, n_max[1])

\* _best_clusters(clusters, quality, n_max); quality is a function here.
_best_clusters(clusters, quality, n_max) ==
    _argsort([i \in 1..Len(clusters) |-> <<clusters[i], quality[clusters[i]]>>],
             n_max)

\* ------------------------------------------------------------------ Wizard
\* The ignored set holds cluster ids and pairs; a cluster id c is kept as
\* the 1-tuple <<c>> and a pair as <<a, b>>, so the two never compare equal.
\* Wizard._filter(items), on items written that way.
_filter(items, ignored) ==
    SelectSeq(items, LAMBDA item : item \notin ignored)

\* _filter on a list of cluster ids.
_filter_clusters(clusters, ignored) ==
    LET kept == _filter([i \in 1..Len(clusters) |-> <<clusters[i]>>], ignored)
    IN  [i \in 1..Len(kept) |-> kept[i][1]]

\* _filter_pairs with a pair dropped when ignored in either order.
_filter_pairs_either_order(cluster, clusters, ignored) ==
    SelectSeq(clusters, LAMBDA clu : /\ <<cluster, clu>> \notin ignored
                                     /\ <<clu, cluster>> \notin ignored)

\* The pairs (cluster, clu) zipped from the clusters, filtered, and the
\* second elements of those left.
_filter_pairs(cluster, clusters, ignored) ==
    LET pairs == [i \in 1..Len(clusters) |-> <<cluster, clusters[i]>>]
        kept == _filter(pairs, ignored)
    IN  [i \in 1..Len(kept) |-> kept[i][2]]

\* Wizard._check_cluster_ids(): TRUE when it raises.
_check_cluster_ids(cluster_ids) == cluster_ids = None

\* best_clusters without the filter on its result.
best_clusters_unfiltered(cluster_ids, quality, ignored, n_max) ==
    IF cluster_ids = None THEN Raise("RuntimeError")
    ELSE IF quality = None /\ cluster_ids[1] # <<>> THEN Raise("TypeError")
    ELSE IF cluster_ids[1] = <<>> THEN Ok(<<>>)
    ELSE Ok(_best_clusters(cluster_ids[1], quality[1], n_max))

\* Wizard.best_clusters(n_max): the quality function is called once per
\* cluster, so a missing one raises only when there is a cluster.
best_clusters(cluster_ids, quality, ignored, n_max) ==
    IF _check_cluster_ids(cluster_ids) THEN Raise("RuntimeError")
    ELSE IF quality = None /\ cluster_ids[1] # <<>> THEN Raise("TypeError")
    ELSE IF cluster_ids[1] = <<>> THEN Ok(<<>>)
    ELSE Ok(_filter_clusters(_best_clusters(cluster_ids[1], quality[1], n_max),
                             ignored))

\* Wizard.best_cluster(): Some(cluster), or None when the list is empty.
best_cluster(cluster_ids, quality, ignored) ==
    LET r == best_clusters(cluster_ids, quality, ignored, Some(1))
    IN  IF ~IsOk(r) THEN r
        ELSE IF r.val # <<>> THEN Ok(Some(r.val[1]))
        ELSE Ok(None)

\* The body of most_similar_clusters once the pivot is resolved; cluster
\* is None or Some(c). The similarity function is called for every other
\* cluster; the registered functions are defined on cluster ids only.
\* most_similar_to that drops the ignored clusters and pairs before it
\* truncates to n_max.
most_similar_to_filter_first(cluster_ids, similarity, ignored, cluster, n_max) ==
    IF _check_cluster_ids(cluster_ids) THEN Raise("RuntimeError")
    ELSE
      LET others == SelectSeq(cluster_ids[1],
                              LAMBDA other : Some(other) # cluster)
      IN  IF others = <<>> THEN Ok(<<>>)
          ELSE IF similarity = None \/ cluster = None THEN Raise("TypeError")
          ELSE
            LET kept == _filter_pairs(cluster[1],
                                      _filter_clusters(others, ignored), ignored)
                sim == [i \in 1..Len(kept) |->
                          <<kept[i], similarity[1][<<cluster[1], kept[i]>>]>>]
            IN  Ok(_argsort(sim, n_max))

most_similar_to(cluster_ids, similarity, ignored, cluster, n_max) ==
    IF _check_cluster_ids(cluster_ids) THEN Raise("RuntimeError")
    ELSE
      LET others == SelectSeq(cluster_ids[1],
                              LAMBDA other : Some(other) # cluster)
      IN  IF others = <<>> THEN Ok(<<>>)
          ELSE IF similarity = None \/ cluster = None THEN Raise("TypeError")
          ELSE
            LET sim == [i \in 1..Len(others) |->
                          <<others[i], similarity[1][<<cluster[1], others[i]>>]>>]
                clusters == _filter_clusters(_argsort(sim, n_max), ignored)
            IN  Ok(_filter_pairs(cluster[1], clusters, ignored))

\* Wizard.most_similar_clusters(cluster, n_max).
most_similar_clusters(cluster_ids, quality, similarity, ignored, cluster, n_max) ==
    IF cluster = None
    THEN LET b == best_cluster(cluster_ids, quality, ignored)
         IN  IF ~IsOk(b) THEN b
             ELSE most_similar_to(cluster_ids, similarity, ignored, b.val, n_max)
    ELSE most_similar_to(cluster_ids, similarity, ignored, cluster, n_max)

\* Wizard.count and Wizard._current (None, or Some(item)).
count(list) == Len(list)

\* _current that gives the last item when the index is past the end.
_current_clamped(list, index) ==
    IF index # None /\ 0 <= index[1] /\ list # <<>>
    THEN Some(list[IF index[1] < Len(list) THEN index[1] + 1 ELSE Len(list)])
    ELSE None

_current(list, index) ==
    IF index # None /\ 0 <= index[1] /\ index[1] < count(list)
    THEN Some(list[index[1] + 1])
    ELSE None

\* ------------------------------------------------------------------ state
VARIABLES
    _cluster_ids,   \* Some(sorted list of cluster ids)
    _quality,       \* None or Some(function)
    _similarity,    \* None or Some(function)
    _ignored,       \* set of <<c>> and <<a, b>>
    _list,          \* the list being browsed
    _index,         \* None or Some(integer)
    _is_running,    \* BOOLEAN
    _pinned,        \* None or Some(cluster)
    op,             \* the last method called
    ret             \* what it returned or raised

\* A call: the method and its arguments (None for those it does not take).
Call(name, cluster, n_max, target) ==
    [name |-> name, cluster |-> cluster, n_max |-> n_max, target |-> target]
Nav(name) == Call(name, None, None, None)

conf == <<_cluster_ids, _quality, _similarity>>
nav == <<_list, _index, _is_running, _pinned>>
vars == <<_cluster_ids, _quality, _similarity, _ignored,
          _list, _index, _is_running, _pinned, op, ret>>

\* Wizard.__init__(cluster_ids), cluster_ids being None (the default) or
\* Some(list). The cluster_ids setter runs sorted(cluster_ids), and
\* sorted(None) raises TypeError: the constructor then raises before
\* _cluster_ids and the list fields are assigned (written here as None and
\* as the reset values), and no Wizard exists.
__init__(Args) ==
    /\ _similarity = None
    /\ _quality = None
    /\ _ignored = {}
    /\ \E arg \in Args :
         IF arg = None
         THEN /\ _cluster_ids = None
              /\ ret = Raise("TypeError")
         ELSE /\ _cluster_ids = Some(sorted(arg[1]))
              /\ ret = Ok(None)
    /\ _list = <<>>
    /\ _index = None
    /\ _is_running = FALSE
    /\ _pinned = None
    /\ op = Call("__init__", None, None, None)

\* Whether the constructor returned a Wizard to call methods on.
Constructed == ~(op.name = "__init__" /\ ~IsOk(ret))

\* ------------------------------------------------------------------ setters
\* cluster_ids setter: sorted(cluster_ids); sorted(None) raises TypeError
\* before the field is assigned. (An ndarray is first turned into a list.)
\* A cluster_ids setter that also resets the list.
set_cluster_ids_resets(Inputs) ==
    /\ \E arg \in {None} \cup {Some(ids) : ids \in Inputs} :
         IF arg = None
         THEN /\ ret' = Raise("TypeError")
              /\ UNCHANGED <<_cluster_ids, nav>>
         ELSE /\ _cluster_ids' = Some(sorted(arg[1]))
              /\ _list' = <<>>
              /\ _index' = None
              /\ _is_running' = FALSE
              /\ _pinned' = None
              /\ ret' = Ok(None)
    /\ op' = Nav("cluster_ids")
    /\ UNCHANGED <<_quality, _similarity, _ignored>>

set_cluster_ids(Inputs) ==
    /\ \E arg \in {None} \cup {Some(ids) : ids \in Inputs} :
         IF arg = None
         THEN /\ ret' = Raise("TypeError")
              /\ UNCHANGED _cluster_ids
         ELSE /\ _cluster_ids' = Some(sorted(arg[1]))
              /\ ret' = Ok(None)
    /\ op' = Nav("cluster_ids")
    /\ UNCHANGED <<_quality, _similarity, _ignored, nav>>

\* set_quality_function(func); the returned func is not recorded in ret.
set_quality_function(Funcs) ==
    /\ \E func \in Funcs : _quality' = Some(func)
    /\ op' = Nav("set_quality_function")
    /\ ret' = Ok(None)
    /\ UNCHANGED <<_cluster_ids, _similarity, _ignored, nav>>

\* set_similarity_function(func); the returned func is not recorded in ret.
set_similarity_function(Funcs) ==
    /\ \E func \in Funcs : _similarity' = Some(func)
    /\ op' = Nav("set_similarity_function")
    /\ ret' = Ok(None)
    /\ UNCHANGED <<_cluster_ids, _quality, _ignored, nav>>

\* ignore(cluster_or_pair).
\* ignore that also takes an ignored cluster out of the list.
ignore_refilters(Args) ==
    /\ \E a \in Args :
         /\ op' = Call("ignore", None, None, a.val)
         /\ IF a.type \notin {"int", "tuple"}
            THEN /\ ret' = Raise("ValueError")
                 /\ UNCHANGED <<_ignored, _list>>
            ELSE IF a.type = "tuple" /\ Len(a.val) # 2
            THEN /\ ret' = Raise("AssertionError")
                 /\ UNCHANGED <<_ignored, _list>>
            ELSE /\ Cardinality(_ignored \cup {a.val}) <= MaxIgnored
                 /\ _ignored' = _ignored \cup {a.val}
                 /\ _list' = SelectSeq(_list, LAMBDA c : <<c>> \notin _ignored')
                 /\ ret' = Ok(None)
    /\ UNCHANGED <<conf, _index, _is_running, _pinned>>

ignore(Args) ==
    /\ \E a \in Args :
         /\ op' = Call("ignore", None, None, a.val)
         /\ IF a.type \notin {"int", "tuple"}
            THEN /\ ret' = Raise("ValueError")
                 /\ UNCHANGED _ignored
            ELSE IF a.type = "tuple" /\ Len(a.val) # 2
            THEN /\ ret' = Raise("AssertionError")
                 /\ UNCHANGED _ignored
            ELSE /\ Cardinality(_ignored \cup {a.val}) <= MaxIgnored
                 /\ _ignored' = _ignored \cup {a.val}
                 /\ ret' = Ok(None)
    /\ UNCHANGED <<conf, nav>>

\* ------------------------------------------------------------------ queries
\* A call of best_clusters(n_max).
call_best_clusters ==
    /\ \E n_max \in NMaxValues :
         /\ op' = Call("best_clusters", None, n_max, None)
         /\ ret' = best_clusters(_cluster_ids, _quality, _ignored, n_max)
    /\ UNCHANGED <<conf, _ignored, nav>>

\* A call of best_cluster().
call_best_cluster ==
    /\ op' = Nav("best_cluster")
    /\ ret' = best_cluster(_cluster_ids, _quality, _ignored)
    /\ UNCHANGED <<conf, _ignored, nav>>

\* A call of most_similar_clusters(cluster, n_max).
call_most_similar_clusters ==
    /\ \E cluster \in {None} \cup {Some(c) : c \in Items}, n_max \in NMaxValues :
         /\ op' = Call("most_similar_clusters", cluster, n_max, None)
         /\ ret' = most_similar_clusters(_cluster_ids, _quality, _similarity,
                                         _ignored, cluster, n_max)
    /\ UNCHANGED <<conf, _ignored, nav>>

\* ------------------------------------------------------------------ list methods
\* _reset_list that leaves _is_running as it is.
_reset_list_keeps_running ==
    /\ _list' = <<>>
    /\ _index' = None
    /\ _pinned' = None
    /\ UNCHANGED _is_running

\* _reset_list that leaves _pinned as it is.
_reset_list_keeps_pinned ==
    /\ _list' = <<>>
    /\ _index' = None
    /\ _is_running' = FALSE
    /\ UNCHANGED _pinned

\* _reset_list that leaves _index as it is.
_reset_list_keeps_index ==
    /\ _list' = <<>>
    /\ _is_running' = FALSE
    /\ _pinned' = None
    /\ UNCHANGED _index

\* _reset_list().
_reset_list ==
    /\ _list' = <<>>
    /\ _index' = None
    /\ _is_running' = FALSE
    /\ _pinned' = None

\* The body of start(): the two fields are set before best_clusters() is
\* called, so they stay set when it raises. r is what best_clusters gave.
start_body(r) ==
    /\ _index' = Some(0)
    /\ _is_running' = TRUE
    /\ _list' = IF IsOk(r) THEN r.val ELSE _list
    /\ UNCHANGED _pinned

start ==
    /\ LET r == best_clusters(_cluster_ids, _quality, _ignored, None)
       IN  /\ start_body(r)
           /\ ret' = IF IsOk(r) THEN Ok(None) ELSE r
    /\ op' = Nav("start")
    /\ UNCHANGED <<conf, _ignored>>

\* pause that resets the list as stop() does.
pause_as_stop ==
    /\ _reset_list
    /\ op' = Nav("pause")
    /\ ret' = Ok(None)
    /\ UNCHANGED <<conf, _ignored>>

pause ==
    /\ _is_running' = FALSE
    /\ op' = Nav("pause")
    /\ ret' = Ok(None)
    /\ UNCHANGED <<conf, _ignored, _list, _index, _pinned>>

stop ==
    /\ _reset_list
    /\ op' = Nav("stop")
    /\ ret' = Ok(None)
    /\ UNCHANGED <<conf, _ignored>>

next ==
    /\ IF ~_is_running
       THEN LET r == best_clusters(_cluster_ids, _quality, _ignored, None)
            IN  /\ start_body(r)
                /\ ret' = IF IsOk(r) THEN Ok(_current(_list', _index')) ELSE r
       ELSE IF ~(_index # None /\ _index[1] >= 0)
       THEN /\ ret' = Raise("AssertionError")
            /\ UNCHANGED nav
       ELSE /\ _index[1] < Len(_list) + MaxPastEnd
            /\ _index' = Some(_index[1] + 1)
            /\ ret' = Ok(_current(_list, _index'))
            /\ UNCHANGED <<_list, _is_running, _pinned>>
    /\ op' = Nav("next")
    /\ UNCHANGED <<conf, _ignored>>

\* previous(): comparing a None index with 1 raises TypeError.
previous ==
    /\ IF _is_running /\ _index = None
       THEN /\ ret' = Raise("TypeError")
            /\ UNCHANGED nav
       ELSE /\ _index' = IF _is_running /\ _index[1] >= 1
                         THEN Some(_index[1] - 1) ELSE _index
            /\ ret' = Ok(_current(_list, _index'))
            /\ UNCHANGED <<_list, _is_running, _pinned>>
    /\ op' = Nav("previous")
    /\ UNCHANGED <<conf, _ignored>>

first ==
    /\ _index' = Some(0)
    /\ ret' = Ok(_current(_list, _index'))
    /\ op' = Nav("first")
    /\ UNCHANGED <<conf, _ignored, _list, _is_running, _pinned>>

last ==
    /\ _index' = Some(count(_list) - 1)
    /\ ret' = Ok(_current(_list, _index'))
    /\ op' = Nav("last")
    /\ UNCHANGED <<conf, _ignored, _list, _is_running, _pinned>>

\* ------------------------------------------------------------------ pin methods
\* Python truth of an optional cluster id: None and 0 are false.
Truthy(v) == v # None /\ v[1] # 0

pin ==
    /\ _pinned' = _current(_list, _index)
    /\ IF Truthy(_pinned')
       THEN LET r == most_similar_clusters(_cluster_ids, _quality, _similarity,
                                           _ignored, _pinned', None)
            IN  IF IsOk(r)
                THEN /\ _list' = r.val
                     /\ _index' = Some(0)
                     /\ ret' = Ok(_pinned')
                ELSE /\ ret' = r
                     /\ UNCHANGED <<_list, _index>>
       ELSE /\ ret' = Ok(_pinned')
            /\ UNCHANGED <<_list, _index>>
    /\ op' = Nav("pin")
    /\ UNCHANGED <<conf, _ignored, _is_running>>

\* unpin that leaves the index where it is.
unpin_keeps_index ==
    /\ _pinned' = None
    /\ LET r == best_clusters(_cluster_ids, _quality, _ignored, None)
       IN  /\ _list' = IF IsOk(r) THEN r.val ELSE _list
           /\ ret' = IF IsOk(r) THEN Ok(None) ELSE r
    /\ op' = Nav("unpin")
    /\ UNCHANGED <<conf, _ignored, _is_running, _index>>

unpin ==
    /\ _pinned' = None
    /\ LET r == best_clusters(_cluster_ids, _quality, _ignored, None)
       IN  IF IsOk(r)
           THEN /\ _list' = r.val
                /\ _index' = Some(0)
                /\ ret' = Ok(None)
           ELSE /\ ret' = r
                /\ UNCHANGED <<_list, _index>>
    /\ op' = Nav("unpin")
    /\ UNCHANGED <<conf, _ignored, _is_running>>

\* current_selection(): () is <<>>, a cluster <<c>>, a pair <<pinned, c>>.
current_selection ==
    /\ LET current == _current(_list, _index)
       IN  ret' = IF ~_is_running THEN Ok(<<>>)
                  ELSE IF current = None THEN Raise("AssertionError")
                  ELSE IF _pinned = None THEN Ok(current)
                  ELSE Ok(<<_pinned[1], current[1]>>)
    /\ op' = Nav("current_selection")
    /\ UNCHANGED <<conf, _ignored, nav>>

\* ------------------------------------------------------------------ specifications
\* Wizard(cluster_ids) called with no list or with a list: no function is
\* registered yet.
Init ==
    __init__({None} \cup {Some(ids) : ids \in DistinctSeqsUpTo(MaxClusters)})

NextSetup ==
    /\ Constructed
    /\ \/ set_cluster_ids(DistinctSeqsUpTo(MaxClusters))
       \/ set_quality_function({NavQuality})
       \/ set_similarity_function({NavSimilarity})
       \/ start
       \/ pause
       \/ stop
       \/ next
       \/ pin
       \/ unpin

\* A Wizard from its construction on, the functions registered at any time.
SpecSetup == Init /\ [][NextSetup]_vars

\* A configured Wizard: constructed on one of Inputs, then a quality and a
\* similarity function registered.
InitConfigured(Inputs, QFuncs, SFuncs) ==
    /\ \E ids \in Inputs : _cluster_ids = Some(sorted(ids))
    /\ \E func \in QFuncs : _quality = Some(func)
    /\ \E func \in SFuncs : _similarity = Some(func)
    /\ _ignored = {}
    /\ _list = <<>>
    /\ _index = None
    /\ _is_running = FALSE
    /\ _pinned = None
    /\ op = Nav("set_similarity_function")
    /\ ret = Ok(None)

InitNav ==
    InitConfigured(DistinctSeqsUpTo(MaxClusters), {NavQuality}, {NavSimilarity})

NextNav ==
    \/ set_cluster_ids(DistinctSeqsUpTo(MaxClusters))
    \/ ignore(NavIgnoreArgs)
    \/ start
    \/ pause
    \/ stop
    \/ next
    \/ previous
    \/ first
    \/ last
    \/ pin
    \/ unpin
    \/ current_selection

\* Navigation on a configured Wizard.
SpecNav == InitNav /\ [][NextNav]_vars

InitRank == InitConfigured(SeqsUpTo(MaxClusters), QualityFuncs, SimilarityFuncs)

NextRank ==
    \/ ignore(IgnoreArgs)
    \/ call_best_clusters
    \/ call_best_cluster
    \/ call_most_similar_clusters

\* The ranking calls on a configured Wizard.
SpecRank == InitRank /\ [][NextRank]_vars

\* ------------------------------------------------------------------ ranking claims
\* How often cluster c occurs in list s.
Occurrences(s, c) == Cardinality({i \in 1..Len(s) : s[i] = c})

\* The results of the ranking calls on the present state.
BestNow(n_max) == best_clusters(_cluster_ids, _quality, _ignored, n_max)
MostSimilarNow(cluster, n_max) ==
    most_similar_clusters(_cluster_ids, _quality, _similarity, _ignored,
                          cluster, n_max)

\* C1: best_clusters() without n_max returns the clusters of the item set
\* that are not ignored, each as often as it occurs there, by descending
\* quality, and clusters of equal quality by ascending id.
C1_BestClustersRanking ==
    (op.name = "best_clusters" /\ op.n_max = None) =>
        /\ IsOk(ret)
        /\ \A c \in Items :
             Occurrences(ret.val, c) =
                IF <<c>> \in _ignored THEN 0
                ELSE Occurrences(_cluster_ids[1], c)
        /\ \A i, j \in 1..Len(ret.val) :
             i < j =>
                /\ _quality[1][ret.val[i]] >= _quality[1][ret.val[j]]
                /\ _quality[1][ret.val[i]] = _quality[1][ret.val[j]]
                      => ret.val[i] <= ret.val[j]

\* C1 witness: a full ranking of an item set with an ignored cluster, that
\* lists two different clusters of equal quality.
C1_Witness ==
    /\ op.name = "best_clusters" /\ op.n_max = None /\ IsOk(ret)
    /\ \E c \in Items : <<c>> \in _ignored /\ Occurrences(_cluster_ids[1], c) > 0
    /\ \E i, j \in 1..Len(ret.val) :
         /\ ret.val[i] # ret.val[j]
         /\ _quality[1][ret.val[i]] = _quality[1][ret.val[j]]

\* C2: best_clusters(n_max=k), k >= 1, is the first k clusters of
\* best_clusters(), and best_cluster() is the first cluster of
\* best_clusters() when there is one.
C2_LimitIsPrefix ==
    /\ (op.name = "best_clusters" /\ op.n_max # None /\ op.n_max # Some(0)) =>
          /\ IsOk(ret)
          /\ ret.val = Take(BestNow(None).val, op.n_max[1])
    /\ (op.name = "best_cluster" /\ BestNow(None).val # <<>>) =>
          /\ IsOk(ret)
          /\ ret.val = Some(BestNow(None).val[1])

\* The clusters of a list.
Range(s) == {s[i] : i \in 1..Len(s)}

\* C4: once the pair <<a, b>> of different clusters is ignored,
\* most_similar_clusters(a) never lists b; and the ignore call changes
\* neither most_similar_clusters(c) for a cluster c # a nor best_clusters().
C4_IgnoredPair ==
    /\ [](\A a, b \in Items :
            (a # b /\ <<a, b>> \in _ignored) =>
               \A n \in NMaxValues :
                  b \notin Range(MostSimilarNow(Some(a), n).val))
    /\ [][(op'.name = "ignore" /\ IsOk(ret') /\ Len(op'.target) = 2) =>
             \A n \in NMaxValues :
                /\ \A c \in Items \ {op'.target[1]} :
                      most_similar_clusters(_cluster_ids', _quality', _similarity',
                                            _ignored', Some(c), n)
                         = MostSimilarNow(Some(c), n)
                /\ best_clusters(_cluster_ids', _quality', _ignored', n)
                      = BestNow(n)
         ]_vars

\* C4 witness: <<a, b>> was ignored where b was the most similar to a and a
\* is listed for b.
C4_Witness ==
    /\ op.name = "ignore" /\ IsOk(ret) /\ Len(op.target) = 2
    /\ LET a == op.target[1]
           b == op.target[2]
       IN  /\ most_similar_to(_cluster_ids, _similarity, {}, Some(a), None).val # <<>>
           /\ most_similar_to(_cluster_ids, _similarity, {}, Some(a), None).val[1] = b
           /\ a \in Range(MostSimilarNow(Some(b), None).val)

\* ------------------------------------------------------------------ navigation claims
\* The clusters a successful call returned (a list, or Some(cluster)).
OkItems(r) == IF IsOk(r) THEN Range(r.val) ELSE {}

\* Every cluster some ranking call returns on the present state.
QueryItems ==
    UNION {OkItems(BestNow(n)) : n \in NMaxValues}
    \cup OkItems(best_cluster(_cluster_ids, _quality, _ignored))
    \cup UNION {OkItems(MostSimilarNow(cluster, n)) :
                  cluster \in {None} \cup {Some(c) : c \in Items},
                  n \in NMaxValues}

\* C3: a cluster once ignored stays in the ignored set whatever is called
\* next, and no ranking call returns it.
C3_IgnoredStaysOut ==
    /\ [](\A x \in Items : <<x>> \in _ignored => x \notin QueryItems)
    /\ [][\A x \in Items : <<x>> \in _ignored => <<x>> \in _ignored']_vars

\* C3 witness: the item set was replaced while a list built before the
\* ignore call still shows the ignored cluster, which the new item set has.
C3_Witness ==
    /\ op.name = "cluster_ids" /\ IsOk(ret)
    /\ \E x \in Items :
         /\ <<x>> \in _ignored
         /\ x \in Range(_list)
         /\ x \in Range(_cluster_ids[1])
         /\ Len(BestNow(None).val) >= 1

\* C5 as stated: the index is set exactly when running on a non-empty
\* list, and is then within the list.
C5_IndexIffRunningNonEmpty ==
    /\ (_index # None) <=> (_is_running /\ _list # <<>>)
    /\ _index # None => (0 <= _index[1] /\ _index[1] < Len(_list))

\* C5 amended: the index is set whenever running (on an empty list too, and
\* it stays set after pause()); a set index is at least -1, and -1 only on
\* an empty list.
C5_IndexWhenRunning ==
    /\ _is_running => _index # None
    /\ _index # None =>
          /\ _index[1] >= -1
          /\ _index[1] = -1 => _list = <<>>

\* C5 witness: running on an empty list after last().
C5_Witness ==
    /\ op.name = "last"
    /\ _is_running
    /\ _index = Some(-1)

\* C6 as stated: pinned is set only while running, and is None after
\* unpin() or stop().
C6_PinnedOnlyRunning ==
    /\ _pinned # None => _is_running
    /\ op.name \in {"unpin", "stop"} => _pinned = None

\* C6 amended: pinned is set only while the index is set (since the last
\* start without a stop), running or not, and is None after unpin() or
\* stop().
C6_PinnedOnlyStarted ==
    /\ _pinned # None => _index # None
    /\ op.name \in {"unpin", "stop"} => _pinned = None

\* C6 witness: paused with a cluster pinned.
C6_Witness ==
    /\ op.name = "pause"
    /\ ~_is_running
    /\ _pinned # None

\* The navigation methods.
NavMethods ==
    {"start", "pause", "stop", "next", "previous", "first", "last", "pin",
     "unpin"}

\* C7: on a configured Wizard no navigation method raises.
C7_NavigationNeverFails ==
    op.name \in NavMethods => IsOk(ret)

\* C8: current_selection() never raises; it returns () when not running,
\* the current cluster when nothing is pinned, else (pinned, current).
C8_SelectionNeverFails ==
    op.name = "current_selection" =>
        /\ IsOk(ret)
        /\ ~_is_running => ret.val = <<>>
        /\ (_is_running /\ _pinned = None) => ret.val = _current(_list, _index)
        /\ (_is_running /\ _pinned # None) =>
              ret.val = _pinned \o _current(_list, _index)

\* list[i] counting from 0, or None past the end.
ItemAt(list, i) == IF i < Len(list) THEN Some(list[i + 1]) ELSE None

\* C9: start() leaves the index at 0; a next() while running leaves the list
\* alone, moves the index up by one and returns the item there, or None
\* past the end; a next() while not running builds the list as start()
\* does and returns its first item.
C9_NextWalksTheList ==
    [][ /\ (op'.name = "start" /\ IsOk(ret')) =>
              /\ _index' = Some(0)
              /\ _list' = BestNow(None).val
        /\ (op'.name = "next" /\ IsOk(ret') /\ _is_running) =>
              /\ _list' = _list
              /\ _index' = Some(_index[1] + 1)
              /\ ret'.val = ItemAt(_list, _index[1] + 1)
        /\ (op'.name = "next" /\ IsOk(ret') /\ ~_is_running) =>
              /\ _list' = BestNow(None).val
              /\ _index' = Some(0)
              /\ _is_running'
              /\ ret'.val = ItemAt(_list', 0)
      ]_vars

\* C9 witness: a next() that went past the end of a list of three.
C9_Witness ==
    /\ op.name = "next" /\ IsOk(ret)
    /\ _pinned = None
    /\ Len(_list) = 3
    /\ _index = Some(3)
    /\ ret.val = None

\* C10: a pin() on a current cluster pins it, puts the clusters most
\* similar to it in the list, without it, and the index at 0.
C10_PinRebuildsList ==
    (op.name = "pin" /\ IsOk(ret) /\ ret.val # None) =>
        /\ _pinned = ret.val
        /\ _list = MostSimilarNow(_pinned, None).val
        /\ _index = Some(0)
        /\ _pinned[1] \notin Range(_list)

\* ------------------------------------------------------------------ further claims
\* best_clusters() on the state after the step.
BestNext ==
    best_clusters(_cluster_ids', _quality', _ignored', None)

\* C11: after start(), and after a next() called while not running, the
\* list is best_clusters(), the index 0, the Wizard running and nothing
\* pinned.
C11_StartClearsPinned ==
    [][((op'.name = "start" \/ (op'.name = "next" /\ ~_is_running))
          /\ IsOk(ret')) =>
          /\ _list' = BestNext.val
          /\ _index' = Some(0)
          /\ _is_running'
          /\ _pinned' = None
      ]_vars

\* C12: unpin() clears pinned, puts best_clusters() in the list and the
\* index at 0, and leaves running, the ignored set and the item set alone.
C12_UnpinRebuilds ==
    [][(op'.name = "unpin" /\ IsOk(ret')) =>
          /\ _pinned' = None
          /\ _list' = BestNext.val
          /\ _index' = Some(0)
          /\ _is_running' = _is_running
          /\ _ignored' = _ignored
          /\ _cluster_ids' = _cluster_ids
      ]_vars

\* C12 witness: an unpin() that left the index at 0 and a list without an
\* ignored cluster of the item set.
C12_Witness ==
    /\ op.name = "unpin" /\ IsOk(ret)
    /\ _index = Some(0)
    /\ _list # <<>>
    /\ \E x \in Range(_cluster_ids[1]) : <<x>> \in _ignored /\ x \notin Range(_list)

\* C13: stop() empties the list, unsets the index and pinned, clears
\* running, and leaves the ignored set, the item set and both functions
\* alone.
C13_StopResets ==
    [][op'.name = "stop" =>
          /\ IsOk(ret')
          /\ _list' = <<>>
          /\ _index' = None
          /\ ~_is_running'
          /\ _pinned' = None
          /\ count(_list') = 0
          /\ _current(_list', _index') = None
          /\ UNCHANGED <<_ignored, _cluster_ids, _quality, _similarity>>
      ]_vars

\* C13 witness: stopped with an ignored cluster and a non-empty item set.
C13_Witness ==
    /\ op.name = "stop"
    /\ _ignored # {}
    /\ _cluster_ids[1] # <<>>
    /\ _list = <<>> /\ _index = None

\* The calls that need a ranking.
RankingCalls ==
    {"best_clusters", "best_cluster", "most_similar_clusters",
     "start", "next", "unpin"}

\* C14: a Wizard can be constructed with no cluster ids, and while the
\* cluster ids are None every call that needs a ranking raises the
\* RuntimeError of _check_cluster_ids.
C14_NoClusterIdsRaises ==
    /\ op.name = "__init__" => IsOk(ret)
    /\ (_cluster_ids = None /\ op.name \in RankingCalls) =>
           ret.kind = "RuntimeError"

\* C15: pause() clears running and leaves the list, the index, pinned, the
\* ignored set and the cluster ids alone, so the current item is the same;
\* previous(), first() and last() called while not running leave it so.
C15_PauseKeepsPosition ==
    [][/\ op'.name = "pause" =>
             /\ ~_is_running'
             /\ UNCHANGED <<_list, _index, _pinned, _ignored, _cluster_ids>>
             /\ _current(_list', _index') = _current(_list, _index)
       /\ (op'.name \in {"previous", "first", "last"} /\ ~_is_running) =>
             ~_is_running'
      ]_vars

\* C15 witness: paused past the first item of the list, on an item.
C15_Witness ==
    /\ op.name = "pause"
    /\ ~_is_running
    /\ _index # None /\ _index[1] >= 1
    /\ _current(_list, _index) # None

\* C16: assigning cluster_ids leaves the list, the index, running, pinned
\* and the ignored set alone, so the current item is the same; the lists
\* built afterwards by start(), unpin() and pin() are ranked from the new
\* cluster ids.
C16_ClusterIdsKeepsTraversal ==
    [][/\ op'.name = "cluster_ids" =>
             /\ UNCHANGED <<_list, _index, _is_running, _pinned, _ignored>>
             /\ _current(_list', _index') = _current(_list, _index)
       /\ (op'.name \in {"start", "unpin"} /\ IsOk(ret')) =>
             /\ _list' = BestNext.val
             /\ Range(_list') \subseteq Range(_cluster_ids'[1])
       /\ (op'.name = "pin" /\ IsOk(ret') /\ Truthy(_pinned')) =>
             /\ _list' = most_similar_clusters(_cluster_ids', _quality',
                             _similarity', _ignored', _pinned', None).val
             /\ Range(_list') \subseteq Range(_cluster_ids'[1])
      ]_vars

\* C16 witness: the cluster ids were replaced and the current item is not
\* one of the new ones.
C16_Witness ==
    /\ op.name = "cluster_ids" /\ IsOk(ret)
    /\ _current(_list, _index) # None
    /\ _current(_list, _index)[1] \notin Range(_cluster_ids[1])

\* ------------------------------------------------------------------ similarity ranking
\* s without its i-th element.
RemoveAt(s, i) == SubSeq(s, 1, i - 1) \o SubSeq(s, i + 1, Len(s))

\* The clusters of others from the most similar to cluster p to the least,
\* clusters of equal similarity by ascending id: the first is one that no
\* other precedes, then the same on the rest.
RECURSIVE RankedBySimilarity(_, _)
RankedBySimilarity(p, others) ==
    IF others = <<>> THEN <<>>
    ELSE LET sim(o) == _similarity[1][<<p, o>>]
             i == CHOOSE i \in 1..Len(others) :
                     \A j \in 1..Len(others) :
                        \/ sim(others[i]) > sim(others[j])
                        \/ /\ sim(others[i]) = sim(others[j])
                           /\ others[i] <= others[j]
         IN  <<others[i]>> \o RankedBySimilarity(p, RemoveAt(others, i))

\* What most_similar_clusters(p, n_max) is said to return on this state.
SimilarTo(p, n_max) ==
    LET others == SelectSeq(_cluster_ids[1], LAMBDA o : o # p)
        ranked == RankedBySimilarity(p, others)
        cut == IF n_max = None \/ n_max = Some(0) THEN ranked
               ELSE SubSeq(ranked, 1, IF n_max[1] < Len(ranked)
                                      THEN n_max[1] ELSE Len(ranked))
        clusters == SelectSeq(cut, LAMBDA o : <<o>> \notin _ignored)
    IN  SelectSeq(clusters, LAMBDA o : <<p, o>> \notin _ignored)

\* C17: most_similar_clusters(p, n_max) returns the clusters other than p
\* by descending similarity to p (equal ones by ascending id), cut to the
\* first n_max (all of them for None or 0), then without the ignored
\* clusters, then without those whose pair with p is ignored; p is never
\* in it.
C17_MostSimilarRanking ==
    (op.name = "most_similar_clusters" /\ op.cluster # None) =>
        /\ IsOk(ret)
        /\ ret.val = SimilarTo(op.cluster[1], op.n_max)
        /\ op.cluster[1] \notin Range(ret.val)

\* C17 witness: with n_max = 1 nothing is returned, because the most
\* similar cluster is ignored, although without n_max another cluster is
\* returned; and two clusters of equal similarity are ranked.
C17_Witness ==
    /\ op.name = "most_similar_clusters" /\ op.cluster # None
    /\ op.n_max = Some(1)
    /\ IsOk(ret) /\ ret.val = <<>>
    /\ SimilarTo(op.cluster[1], None) # <<>>
    /\ \E a, b \in Range(_cluster_ids[1]) \ {op.cluster[1]} :
         /\ a # b
         /\ _similarity[1][<<op.cluster[1], a>>]
               = _similarity[1][<<op.cluster[1], b>>]

\* ------------------------------------------------------------------ frames
\* C18: pin() called when there is no current item returns None and leaves
\* the list, the index, running and pinned as they were.
C18_PinWithoutCurrent ==
    [][(op'.name = "pin" /\ _current(_list, _index) = None) =>
          /\ ret' = Ok(None)
          /\ UNCHANGED <<_list, _index, _is_running, _pinned>>
      ]_vars

\* C19: a start(), next(), pin() or unpin() that raises because the
\* ranking it calls raises leaves the list, the index, running and pinned
\* as they were.
C19_FailureKeepsNavigation ==
    [][(op'.name \in {"start", "next", "pin", "unpin"}
          /\ ret'.kind \in {"TypeError", "RuntimeError"}) =>
          UNCHANGED <<_list, _index, _is_running, _pinned>>
      ]_vars

\* C20: ignore() leaves the list, the index, running, pinned, the cluster
\* ids and both functions alone; accepted, it adds its argument to the
\* ignored set, and rejected it leaves the ignored set alone too.
C20_IgnoreOnlyIgnores ==
    [][op'.name = "ignore" =>
          /\ UNCHANGED <<_list, _index, _is_running, _pinned>>
          /\ UNCHANGED <<_cluster_ids, _quality, _similarity>>
          /\ _current(_list', _index') = _current(_list, _index)
          /\ IF IsOk(ret') THEN _ignored' = _ignored \cup {op'.target}
             ELSE _ignored' = _ignored
      ]_vars

\* C20 witness: next() returned a cluster that is ignored, or one whose
\* pair with the pinned cluster is ignored.
C20_Witness ==
    /\ op.name = "next" /\ IsOk(ret)
    /\ ret.val # None
    /\ \/ <<ret.val[1]>> \in _ignored
       \/ _pinned # None /\ <<_pinned[1], ret.val[1]>> \in _ignored

====
